---- MODULE Spec2Model ----
(***************************************************************************)
(* RumDB disk storage (src/src/storage.rs, format.rs, keydir.rs, lib.rs).  *)
(*                                                                         *)
(* The data directory is modelled at byte level: every segment file        *)
(* <id>.rumdb.log is a sequence of bytes, the LOCK file is a flag.  Each   *)
(* handle slot holds the in-memory part of a DiskStorage: keydir,          *)
(* log_files (segment id -> stream position of the open file) and          *)
(* storage_stats.alive_log_keys.                                           *)
(***************************************************************************)
EXTENDS Integers, Sequences, FiniteSets, TLC

\* ------------------------------------------------------------------ bounds
\* Number of calls of put, those inside remove included, that the model
\* lets the handles make (also caps the clock).
MaxOps == 4
\* DbOptions.max_log_file_size given to every open.
MaxLogFileSize == 30
\* The environment makes a write fail only while the clock is below
\* MaxTornClock, and at most MaxTornWrites times.
MaxTornClock == 2
MaxTornWrites == 1

\* --------------------------------------------------------------- constants
HEADER_SIZE == 12

\* ------------------------------------------------------------------ inputs
Handles == {1, 2}
Keys == {<<1>>, <<2>>, <<3, 4, 5, 6>>}
Values == {<<>>, <<7, 8>>}
\* The key and the value of the puts and removes whose write the environment
\* tears.
TornKeys == {<<3, 4, 5, 6>>}
TornValues == {<<7, 8>>}

NoLog == -1          \* Option<u32>::None for a segment id

VARIABLES
    disk,            \* segment id -> bytes of <id>.rumdb.log, for the files that exist
    lockfile,        \* TRUE iff <dir>/LOCK exists
    pc,              \* per handle: "closed", "locked" (inside _open, lock held), "live"
    returned,        \* [h, res]: the handle and result of the call that returned last
    keydir,          \* per handle: key -> KeydirEntry
    log_files,       \* per handle: segment id -> stream position of the open File
    storage_stats,   \* per handle: alive_log_keys, segment id -> count
    clock,           \* wall clock in seconds; one tick per call of put
    ref,             \* reference map: key -> Some(last value put), None once removed
    written,         \* per handle and key: what the handle did to the key last
    removes,         \* per handle: TRUE iff the handle has called remove
    stale_lock,      \* TRUE iff LOCK was left behind by a crashed process
    torn             \* the torn record at a segment's tail, or NoTorn

vars == <<disk, lockfile, pc, returned, keydir, log_files, storage_stats,
          clock, ref, written, removes, stale_lock, torn>>

\* usize::MAX = 2^64 - 1, kept as its decimal numeral: the number is beyond
\* the integers of the model checker.
USIZE_MAX == "18446744073709551615"

\* torn: the segment and its length after the latest failed write, the part
\* of the record the write stopped in, and the number of failed writes so far.
NoTorn == [sid |-> NoLog, len |-> 0, part |-> "none", count |-> 0]

\* No call has returned since the latest drop or since an open began.
Nothing == [h |-> 0, res |-> "none"]

\* A handle that has neither put nor removed any key.
Untouched == [k \in Keys |-> "untouched"]

\* Option<Vec<u8>>
None == [tag |-> "None", val |-> <<>>]
Some(v) == [tag |-> "Some", val |-> v]

EmptyFn == [x \in {} |-> 0]

Min(a, b) == IF a < b THEN a ELSE b

MaxOf(S) == CHOOSE x \in S : \A y \in S : y <= x

\* -------------------------------------------------------------- format.rs

\* u32::to_le_bytes
LE32(n) == <<n % 256, (n \div 256) % 256, (n \div 65536) % 256, (n \div 16777216) % 256>>

\* u32::from_le_bytes
FromLE32(b) == b[1] + 256 * b[2] + 65536 * b[3] + 16777216 * b[4]

\* Header::new
HeaderNew(timestamp, key_size, value_size) ==
    LE32(timestamp) \o LE32(key_size) \o LE32(value_size)

\* Header::timestamp, Header::key_size, Header::value_size
HeaderTimestamp(h) == FromLE32(SubSeq(h, 1, 4))
HeaderKeySize(h) == FromLE32(SubSeq(h, 5, 8))
HeaderValueSize(h) == FromLE32(SubSeq(h, 9, 12))

\* DiskEntry::new, with Utc::now() given as `now`
DiskEntryNew(key, value, now) ==
    [header |-> HeaderNew(now, Len(key), Len(value)), key |-> key, value |-> value]

\* KeydirEntry::new
KeydirEntryNew(file_id, value_size, value_pos, timestamp) ==
    [file_id |-> file_id, value_size |-> value_size,
     value_pos |-> value_pos, timestamp |-> timestamp]

\* -------------------------------------------------------------- keydir.rs

\* HashmapKeydir::get: Option<&KeydirEntry> as a set of at most one entry
KeydirGet(kd, k) == IF k \in DOMAIN kd THEN {kd[k]} ELSE {}

\* HashmapKeydir::put
KeydirPut(kd, k, e) == [x \in DOMAIN kd \cup {k} |-> IF x = k THEN e ELSE kd[x]]

\* A remove that leaves the key in the map.
KeydirRemoveNothing(kd, k) == kd

\* HashmapKeydir::remove
KeydirRemove(kd, k) == [x \in DOMAIN kd \ {k} |-> kd[x]]

\* ----------------------------------------------- storage.rs: DiskStorageStats

\* DiskStorageStats::inc_alive_log_count
inc_alive_log_count(stats, log_id) ==
    [x \in DOMAIN stats \cup {log_id} |->
        IF x = log_id
        THEN (IF log_id \in DOMAIN stats THEN stats[log_id] + 1 ELSE 1)
        ELSE stats[x]]

\* What a method of DiskStorageStats leaves: the builds in which it panics
\* ("none", "debug": the builds with overflow checks, "all") and the counts
\* it leaves in the builds in which it returns.
Returned(stats) == [panic |-> "none", stats |-> stats]
Panicked(builds, stats) == [panic |-> builds, stats |-> stats]

\* DiskStorageStats::dec_alive_log_count (and_modify: no entry, no effect).
\* The counts are usize: 0 - 1 panics ("attempt to subtract with overflow")
\* in a debug build and wraps to usize::MAX in a release build.
dec_alive_log_count(stats, log_id) ==
    IF log_id \in DOMAIN stats /\ stats[log_id] = 0
    THEN Panicked("debug", [stats EXCEPT ![log_id] = USIZE_MAX])
    ELSE Returned([x \in DOMAIN stats |->
                     IF x = log_id THEN stats[x] - 1 ELSE stats[x]])

\* DiskStorageStats::new_log_entry: assert!(!contains_key) panics in every
\* build when the log has an entry already.
new_log_entry(stats, log_id) ==
    IF log_id \in DOMAIN stats
    THEN Panicked("all", stats)
    ELSE Returned([x \in DOMAIN stats \cup {log_id} |->
                     IF x \in DOMAIN stats THEN stats[x] ELSE 0])

\* An event handler that decrements the old log also when the key stays in
\* the same log.
handle_storage_event_dec(stats, new_log_id, old_log_id) ==
    IF old_log_id # NoLog
    THEN dec_alive_log_count(IF new_log_id # old_log_id
                             THEN inc_alive_log_count(stats, new_log_id)
                             ELSE stats,
                             old_log_id)
    ELSE Returned(inc_alive_log_count(stats, new_log_id))

\* DiskStorageStats::handle_storage_event, StorageEvent::KeydirPut
handle_storage_event(stats, new_log_id, old_log_id) ==
    IF old_log_id # NoLog
    THEN IF new_log_id # old_log_id
         THEN dec_alive_log_count(inc_alive_log_count(stats, new_log_id), old_log_id)
         ELSE Returned(stats)
    ELSE Returned(inc_alive_log_count(stats, new_log_id))

\* The ids of S as a sequence in descending order (BTreeMap::iter().rev()).
RECURSIVE Descending(_)
Descending(S) ==
    IF S = {} THEN <<>>
    ELSE LET m == MaxOf(S) IN <<m>> \o Descending(S \ {m})

\* The ids of S as a sequence in ascending order (BTreeMap::iter()).
RECURSIVE Ascending(_)
Ascending(S) ==
    IF S = {} THEN <<>>
    ELSE LET m == MaxOf(S) IN Ascending(S \ {m}) \o <<m>>

\* A selection of stale logs that does not skip the greatest id.
stale_log_entries_all(stats) ==
    SelectSeq(Descending(DOMAIN stats), LAMBDA id : stats[id] = 0)

\* DiskStorageStats::stale_log_entries: .rev().skip(1).filter(count == 0)
stale_log_entries(stats) ==
    LET ids == Descending(DOMAIN stats)
    IN SelectSeq(IF ids = <<>> THEN <<>> ELSE Tail(ids), LAMBDA id : stats[id] = 0)

\* DiskStorageStats::drop_log_entries
drop_log_entries(stats, entries) ==
    [x \in DOMAIN stats \ {entries[i] : i \in DOMAIN entries} |-> stats[x]]

\* ---------------------------------------------------- storage.rs: files

\* File::write_all at stream position pos of a file opened without O_APPEND:
\* bytes before pos stay, a gap up to pos reads as zeros, data lands at pos.
\* write_all of an empty slice makes no write call: the file stays as it is.
WriteAt(bytes, pos, data) ==
    IF data = <<>> THEN bytes
    ELSE LET n == IF Len(bytes) > pos + Len(data) THEN Len(bytes) ELSE pos + Len(data)
         IN [i \in 1..n |->
               IF i > pos /\ i <= pos + Len(data) THEN data[i - pos]
               ELSE IF i <= Len(bytes) THEN bytes[i]
               ELSE 0]

\* OpenOptions::new().read(true).write(true).create(true).open(<id>.rumdb.log):
\* an existing file keeps its content, a missing one is created empty.
OpenCreate(d, file_id) ==
    [x \in DOMAIN d \cup {file_id} |-> IF x \in DOMAIN d THEN d[x] ELSE <<>>]

\* std::fs::remove_file
RemoveFile(d, file_id) == [x \in DOMAIN d \ {file_id} |-> d[x]]

\* ------------------------------------------------ storage.rs: DiskStorage
\* A storage state is [ok, panic, keydir, log_files, stats, disk]: panic names
\* the builds in which a panic has begun ("none", "debug", "all"); ok is FALSE
\* once an io::Error has been returned or every build has panicked.

\* The storage state after a method of its DiskStorageStats left e.
with_stats(S, e) ==
    [S EXCEPT !.stats = e.stats, !.panic = e.panic, !.ok = (e.panic # "all")]

\* ingest_log: log.read(&mut buf) of n bytes at pos; the bytes of buf that
\* the read does not reach keep what the previous iteration left there.
ReadHeader(log, pos, n, buf) ==
    [i \in 1..HEADER_SIZE |-> IF i <= n THEN log[pos + i] ELSE buf[i]]

\* ingest_log: the keydir after the record with this key and header
ingest_entry(kd, key, value_size, keydir_entry) ==
    IF value_size > 0 THEN KeydirPut(kd, key, keydir_entry) ELSE KeydirRemove(kd, key)

RECURSIVE ingest_loop(_, _, _, _, _)
RECURSIVE ingest_record(_, _, _, _, _)

\* DiskStorage::ingest_log, one iteration after its header has been read:
\* read_exact of the key, stream_position, seek over the value.
ingest_record(kd, file_id, log, key_pos, header) ==
    IF key_pos + HeaderKeySize(header) > Len(log)
    THEN [ok |-> FALSE, keydir |-> kd, pos |-> Len(log)]
    ELSE ingest_loop(
             ingest_entry(kd,
                          SubSeq(log, key_pos + 1, key_pos + HeaderKeySize(header)),
                          HeaderValueSize(header),
                          KeydirEntryNew(file_id, HeaderValueSize(header),
                                         key_pos + HeaderKeySize(header),
                                         HeaderTimestamp(header))),
             file_id, log,
             key_pos + HeaderKeySize(header) + HeaderValueSize(header),
             header)

\* DiskStorage::ingest_log, the loop from stream position pos with header
\* buffer buf: a read of 0 bytes ends it.
ingest_loop(kd, file_id, log, pos, buf) ==
    IF Min(HEADER_SIZE, Len(log) - pos) <= 0
    THEN [ok |-> TRUE, keydir |-> kd, pos |-> pos]
    ELSE ingest_record(kd, file_id, log,
                       pos + Min(HEADER_SIZE, Len(log) - pos),
                       ReadHeader(log, pos, Min(HEADER_SIZE, Len(log) - pos), buf))

\* DiskStorage::ingest_log
ingest_log(kd, file_id, log) ==
    ingest_loop(kd, file_id, log, 0, [i \in 1..HEADER_SIZE |-> 0])

\* build_keydir, one iteration of the first loop, r being what ingest_log
\* returned: the log is registered in the stats.
build_step(S, file_id, r) ==
    IF ~r.ok
    THEN [S EXCEPT !.ok = FALSE]
    ELSE with_stats([S EXCEPT
                       !.keydir = r.keydir,
                       !.log_files = [x \in DOMAIN S.log_files \cup {file_id} |->
                                        IF x = file_id THEN r.pos ELSE S.log_files[x]]],
                    new_log_entry(S.stats, file_id))

\* build_keydir, first loop: every log in ascending id order.
RECURSIVE build_loop(_, _, _)
build_loop(S, ids, d) ==
    IF ids = <<>> \/ ~S.ok THEN S
    ELSE build_loop(build_step(S, Head(ids),
                               ingest_log(S.keydir, Head(ids), d[Head(ids)])),
                    Tail(ids), d)

\* A keydir walk that counts nothing.
count_nothing(stats, kd, keys) == stats

\* build_keydir, second loop: one increment per keydir entry.
RECURSIVE count_loop(_, _, _)
count_loop(stats, kd, keys) ==
    IF keys = {} THEN stats
    ELSE LET k == CHOOSE x \in keys : TRUE
         IN count_loop(inc_alive_log_count(stats, kd[k].file_id), kd, keys \ {k})

\* build_keydir after the first loop: the counts, and log 0 when no log exists.
build_finish(S) ==
    IF ~S.ok THEN S
    ELSE IF DOMAIN S.log_files = {}
    THEN [S EXCEPT !.stats = count_loop(S.stats, S.keydir, DOMAIN S.keydir),
                   !.disk = OpenCreate(S.disk, 0),
                   !.log_files = [x \in {0} |-> 0]]
    ELSE [S EXCEPT !.stats = count_loop(S.stats, S.keydir, DOMAIN S.keydir)]

\* DiskStorage::build_keydir on the directory content d
build_keydir(d) ==
    build_finish(build_loop([ok |-> TRUE, panic |-> "none", keydir |-> EmptyFn,
                             log_files |-> EmptyFn, stats |-> EmptyFn, disk |-> d],
                            Ascending(DOMAIN d), d))

\* DiskStorage::gc, the loop over the stale logs; the environment lets the
\* first `budget` calls of remove_file succeed.
RECURSIVE gc_loop(_, _, _)
gc_loop(S, stale, budget) ==
    IF stale = <<>> THEN S
    ELSE IF budget = 0 \/ Head(stale) \notin DOMAIN S.disk
    THEN [S EXCEPT !.ok = FALSE,
                   !.log_files = [x \in DOMAIN S.log_files \ {Head(stale)} |->
                                    S.log_files[x]]]
    ELSE gc_loop([S EXCEPT !.log_files = [x \in DOMAIN S.log_files \ {Head(stale)} |->
                                            S.log_files[x]],
                           !.disk = RemoveFile(S.disk, Head(stale))],
                 Tail(stale), budget - 1)

\* DiskStorage::gc after its loop: drop_log_entries unless `?` returned early.
gc_finish(S, stale_logs) ==
    IF ~S.ok THEN S
    ELSE [S EXCEPT !.stats = drop_log_entries(S.stats, stale_logs)]

\* DiskStorage::gc where remove_file fails after `budget` successes
gc_env(S, budget) ==
    gc_finish(gc_loop(S, stale_log_entries(S.stats), budget),
              stale_log_entries(S.stats))

\* A garbage collection that collects nothing.
gc_nothing(S) == S

\* DiskStorage::gc where no remove_file fails
gc(S) == gc_env(S, Cardinality(DOMAIN S.stats))

\* A rotation test that also rotates when the record fits exactly.
NeedsRotationAtLimit(current_file_size, k_size, v_size) ==
    current_file_size + (k_size + v_size + HEADER_SIZE) >= MaxLogFileSize

\* A rotation test that leaves the key out of the estimated entry size.
NeedsRotationNoKey(current_file_size, k_size, v_size) ==
    current_file_size + (v_size + HEADER_SIZE) > MaxLogFileSize

\* the rotation test of DiskStorage::rotate_log
NeedsRotation(current_file_size, k_size, v_size) ==
    current_file_size + (k_size + v_size + HEADER_SIZE) > MaxLogFileSize

\* the active log: log_files.last_entry()
ActiveFileId(S) == MaxOf(DOMAIN S.log_files)

\* A rotation that skips one id.
NewActiveFileSkipping(S, new_active_file_id) ==
    [S EXCEPT
       !.disk = OpenCreate(S.disk, new_active_file_id + 1),
       !.log_files = [x \in DOMAIN S.log_files \cup {new_active_file_id + 1} |->
                        IF x = new_active_file_id + 1 THEN 0 ELSE S.log_files[x]]]

\* rotate_log: the new active file is opened and inserted into log_files
NewActiveFile(S, new_active_file_id) ==
    [S EXCEPT
       !.disk = OpenCreate(S.disk, new_active_file_id),
       !.log_files = [x \in DOMAIN S.log_files \cup {new_active_file_id} |->
                        IF x = new_active_file_id THEN 0 ELSE S.log_files[x]]]

\* rotate_log up to its call of gc
rotate_check(S, k_size, v_size) ==
    IF NeedsRotation(S.log_files[ActiveFileId(S)], k_size, v_size)
    THEN NewActiveFile(S, ActiveFileId(S) + 1)
    ELSE S

\* DiskStorage::rotate_log
rotate_log(S, k_size, v_size) == gc(rotate_check(S, k_size, v_size))

\* A put that records the end of the value as its position.
ValuePosAtEnd(pos, value_size) == pos

\* value_pos of DiskStorage::put
ValuePos(pos, value_size) == pos - value_size

\* A write at the start of the file instead of its stream position.
write_all_at_start(S, active_file_id, bytes) ==
    [S EXCEPT
       !.disk = [S.disk EXCEPT ![active_file_id] =
                   WriteAt(S.disk[active_file_id], 0, bytes)],
       !.log_files = [S.log_files EXCEPT ![active_file_id] = Len(bytes)]]

\* put: write_all of bytes at the stream position of the active file
write_all(S, active_file_id, bytes) ==
    [S EXCEPT
       !.disk = [S.disk EXCEPT ![active_file_id] =
                   WriteAt(S.disk[active_file_id], S.log_files[active_file_id], bytes)],
       !.log_files = [S.log_files EXCEPT ![active_file_id] =
                        S.log_files[active_file_id] + Len(bytes)]]

\* put: old_log_id, the log of the entry that keydir.put replaces
OldLogId(kd, k) ==
    IF KeydirGet(kd, k) = {} THEN NoLog ELSE (CHOOSE e \in KeydirGet(kd, k) : TRUE).file_id

\* put after its three writes: the keydir entry and the storage event
put_keydir(S, k, active_file_id, header) ==
    with_stats(
        [S EXCEPT
           !.keydir = KeydirPut(S.keydir, k,
                                KeydirEntryNew(active_file_id, HeaderValueSize(header),
                                               ValuePos(S.log_files[active_file_id],
                                                        HeaderValueSize(header)),
                                               HeaderTimestamp(header)))],
        handle_storage_event(S.stats, active_file_id, OldLogId(S.keydir, k)))

\* put after rotate_log: only the first n bytes of the record reach the file
\* (n = its length: all three write_all succeed).
put_record(S, k, disk_entry, n) ==
    IF ~S.ok THEN S
    ELSE IF n < Len(disk_entry.header \o disk_entry.key \o disk_entry.value)
    THEN [write_all(S, ActiveFileId(S),
                 SubSeq(disk_entry.header \o disk_entry.key \o disk_entry.value, 1, n))
            EXCEPT !.ok = FALSE]
    ELSE put_keydir(write_all(S, ActiveFileId(S),
                           disk_entry.header \o disk_entry.key \o disk_entry.value),
                    k, ActiveFileId(S), disk_entry.header)

\* DiskStorage::put with Utc::now() = now, cut after n bytes of the record
put_bytes(S, k, v, now, n) ==
    put_record(rotate_log(S, Len(k), Len(v)), k, DiskEntryNew(k, v, now), n)

\* DiskStorage::put
put(S, k, v, now) == put_bytes(S, k, v, now, HEADER_SIZE + Len(k) + Len(v))

\* DiskStorage::put where remove_file fails after `budget` successes in the
\* gc of rotate_log
put_env(S, k, v, now, budget) ==
    put_record(gc_env(rotate_check(S, Len(k), Len(v)), budget),
               k, DiskEntryNew(k, v, now), HEADER_SIZE + Len(k) + Len(v))

\* remove after its put: keydir.remove unless `?` returned early
remove_key(S, k) ==
    IF ~S.ok THEN S ELSE [S EXCEPT !.keydir = KeydirRemove(S.keydir, k)]

\* A remove that appends a tombstone whether or not the key is present.
remove_always(S, k, now) == remove_key(put(S, k, <<>>, now), k)

\* DiskStorage::remove
remove(S, k, now) ==
    remove_key(IF KeydirGet(S.keydir, k) # {} THEN put(S, k, <<>>, now) ELSE S, k)

\* get: read_exact_at of the entry's value in its log; a buffer of length 0
\* is filled without a read, wherever value_pos lies.
read_value(S, e) ==
    IF e.file_id \notin DOMAIN S.log_files
    THEN [tag |-> "Err", val |-> <<>>]
    ELSE IF e.value_size = 0
    THEN Some(<<>>)
    ELSE IF e.value_pos + e.value_size > Len(S.disk[e.file_id])
    THEN [tag |-> "Err", val |-> <<>>]
    ELSE Some(SubSeq(S.disk[e.file_id], e.value_pos + 1, e.value_pos + e.value_size))

\* DiskStorage::get: Ok(Some(buf)), Ok(None) or Err
get(S, k) ==
    IF KeydirGet(S.keydir, k) = {} THEN None
    ELSE read_value(S, CHOOSE e \in KeydirGet(S.keydir, k) : TRUE)

\* _open after Lockfile::lock: build_keydir, then gc unless `?` returned early
open_gc(S, budget) == IF S.ok THEN gc_env(S, budget) ELSE S

\* A lock that opens LOCK with create instead of create_new.
LockfileLockShared(exists) == [ok |-> TRUE, exists |-> TRUE]

\* A lock whose failed attempt removes LOCK, as if a Lockfile had been
\* built and dropped.
LockfileLockBreaking(exists) == [ok |-> ~exists, exists |-> ~exists]

\* Lockfile::lock on a directory where LOCK exists or not (create_new):
\* [ok, exists] is the result and whether LOCK exists afterwards.
LockfileLock(exists) == [ok |-> ~exists, exists |-> TRUE]

\* A destructor that closes LOCK without removing it.
LockfileDropKeeps(exists) == [panic |-> FALSE, exists |-> exists]

\* Drop for Lockfile: remove_file(LOCK).expect(..) panics when LOCK is not
\* there; [panic, exists] tells that and whether LOCK exists afterwards.
LockfileDrop(exists) == [panic |-> ~exists, exists |-> FALSE]

\* ------------------------------------------------------------ state machine

\* The DiskStorage of handle p together with the directory.
StateOf(p) ==
    [ok |-> TRUE, panic |-> "none", keydir |-> keydir[p], log_files |-> log_files[p],
     stats |-> storage_stats[p], disk |-> disk]

Init ==
    /\ disk = EmptyFn
    /\ lockfile = FALSE
    /\ pc = [p \in Handles |-> "closed"]
    /\ returned = Nothing
    /\ keydir = [p \in Handles |-> EmptyFn]
    /\ log_files = [p \in Handles |-> EmptyFn]
    /\ storage_stats = [p \in Handles |-> EmptyFn]
    /\ clock = 0
    /\ ref = [k \in Keys |-> None]
    /\ written = [p \in Handles |-> Untouched]
    /\ removes = [p \in Handles |-> FALSE]
    /\ stale_lock = FALSE
    /\ torn = NoTorn

\* The memory of handle p becomes that of storage state S.
Install(p, S) ==
    /\ keydir' = [keydir EXCEPT ![p] = S.keydir]
    /\ log_files' = [log_files EXCEPT ![p] = S.log_files]
    /\ storage_stats' = [storage_stats EXCEPT ![p] = S.stats]
    /\ disk' = S.disk

\* The memory of handle p is freed.
Forget(p) ==
    /\ keydir' = [keydir EXCEPT ![p] = EmptyFn]
    /\ log_files' = [log_files EXCEPT ![p] = EmptyFn]
    /\ storage_stats' = [storage_stats EXCEPT ![p] = EmptyFn]

\* _open, first half: create_dir_all and Lockfile::lock.
OpenLock(p) ==
    /\ pc[p] = "closed"
    /\ LET r == LockfileLock(lockfile)
       IN /\ lockfile' = r.exists
          /\ IF r.ok
             THEN /\ pc' = [pc EXCEPT ![p] = "locked"]
                  /\ returned' = Nothing
             ELSE /\ returned' = [h |-> p, res |-> "AlreadyLocked"]
                  /\ UNCHANGED pc
    /\ UNCHANGED <<disk, keydir, log_files, storage_stats, clock, ref, written,
                   removes, stale_lock, torn>>

\* The handle or the Lockfile of slot p is dropped, by a return or by the
\* unwinding of a panic: the memory is freed, Drop for Lockfile runs and res
\* is what the caller sees unless that destructor panics.
Dropped(p, res) ==
    /\ Forget(p)
    /\ pc' = [pc EXCEPT ![p] = "closed"]
    /\ lockfile' = LockfileDrop(lockfile).exists
    /\ returned' = IF LockfileDrop(lockfile).panic
                   THEN [h |-> p, res |-> "Panic"]
                   ELSE res

\* _open returns R: Ok(db), or the io::Error after the Lockfile is dropped.
Opened(p, R) ==
    IF R.ok
    THEN /\ Install(p, R)
         /\ pc' = [pc EXCEPT ![p] = "live"]
         /\ returned' = [h |-> p, res |-> "Ok"]
         /\ written' = [written EXCEPT ![p] = Untouched]
         /\ UNCHANGED lockfile
    ELSE /\ Dropped(p, [h |-> p,
                         res |-> IF R.panic = "none" THEN "IoError" ELSE "Panic"])
         /\ disk' = R.disk
         /\ UNCHANGED written

\* Whether the build that runs panics, for each value of a storage state's
\* panic field: the build is one of the two.
PanicChoices(builds) ==
    IF builds = "none" THEN {FALSE}
    ELSE IF builds = "all" THEN {TRUE}
    ELSE {TRUE, FALSE}

\* A call on the live handle p leaves storage state T: it returned Ok or the
\* io::Error, or it panicked and the unwinding dropped the handle.
Finished(p, T) ==
    \E panics \in PanicChoices(T.panic) :
        IF panics
        THEN /\ Dropped(p, [h |-> p, res |-> "Panic"])
             /\ disk' = T.disk
        ELSE /\ Install(p, T)
             /\ returned' = [h |-> p, res |-> IF T.ok THEN "Ok" ELSE "IoError"]
             /\ UNCHANGED <<pc, lockfile>>

\* _open, second half, where remove_file fails after `budget` successes.
Recover(p, budget) == Opened(p, open_gc(build_keydir(disk), budget))

\* _open, second half, in an environment where no file operation fails.
OpenRecover(p) ==
    /\ pc[p] = "locked"
    /\ Recover(p, Cardinality(DOMAIN disk))
    /\ UNCHANGED <<clock, ref, removes, stale_lock, torn>>

\* put(k, v) on the live handle p leaves storage state T: the key counts as
\* put when Ok was returned; a panic takes the handle away.
PutDone(p, k, v, T) ==
    /\ pc[p] = "live"
    /\ clock < MaxOps
    /\ Finished(p, T)
    /\ clock' = clock + 1
    /\ ref' = IF returned'.res = "Ok" THEN [ref EXCEPT ![k] = Some(v)] ELSE ref
    /\ written' = IF returned'.res = "Panic" THEN [written EXCEPT ![p] = Untouched]
                  ELSE IF returned'.res = "Ok" THEN [written EXCEPT ![p][k] = "put"]
                  ELSE written
    /\ removes' = IF returned'.res = "Panic" THEN [removes EXCEPT ![p] = FALSE]
                  ELSE removes
    /\ UNCHANGED stale_lock

\* Storage::put
Put(p, k, v) ==
    /\ PutDone(p, k, v, put(StateOf(p), k, v, clock))
    /\ UNCHANGED torn

\* remove(k) on the live handle p leaves storage state T: the key counts as
\* removed when Ok was returned.
RemoveDone(p, k, T) ==
    /\ pc[p] = "live"
    /\ k \in DOMAIN keydir[p] => clock < MaxOps
    /\ Finished(p, T)
    /\ clock' = IF k \in DOMAIN keydir[p] THEN clock + 1 ELSE clock
    /\ ref' = IF returned'.res = "Ok" THEN [ref EXCEPT ![k] = None] ELSE ref
    /\ written' = IF returned'.res = "Panic" THEN [written EXCEPT ![p] = Untouched]
                  ELSE IF returned'.res = "Ok" THEN [written EXCEPT ![p][k] = "removed"]
                  ELSE written
    /\ removes' = [removes EXCEPT ![p] = (returned'.res # "Panic")]
    /\ UNCHANGED stale_lock

\* Storage::remove
Remove(p, k) ==
    /\ RemoveDone(p, k, remove(StateOf(p), k, clock))
    /\ UNCHANGED torn

\* The handle goes out of scope: the files are closed, Drop for Lockfile runs.
Drop(p) ==
    /\ pc[p] = "live"
    /\ Dropped(p, Nothing)
    /\ written' = [written EXCEPT ![p] = Untouched]
    /\ removes' = [removes EXCEPT ![p] = FALSE]
    /\ UNCHANGED <<disk, clock, ref, stale_lock, torn>>

Next ==
    \/ \E p \in Handles : OpenLock(p)
    \/ \E p \in Handles : OpenRecover(p)
    \/ \E p \in Handles, k \in Keys, v \in Values : Put(p, k, v)
    \/ \E p \in Handles, k \in Keys : Remove(p, k)
    \/ \E p \in Handles : Drop(p)

Spec == Init /\ [][Next]_vars

\* ------------------------------------------------------------------ faults

\* Where the three write_all calls of a put can stop: write_all is a loop of
\* write calls, so any number of bytes short of the whole record may have
\* reached the file when one of them fails.
TornPoints(k, v) == 0..(HEADER_SIZE + Len(k) + Len(v) - 1)

\* What T, the outcome of a put cut after n bytes of its record, leaves at
\* the tail of its active segment.
TornBy(T, k, n) ==
    [sid |-> ActiveFileId(T),
     len |-> Len(T.disk[ActiveFileId(T)]),
     part |-> IF n = 0 THEN "none"
              ELSE IF n < HEADER_SIZE THEN "header"
              ELSE IF n < HEADER_SIZE + Len(k) THEN "key"
              ELSE "value",
     count |-> torn.count + 1]

\* Storage::put where a write_all fails after n bytes of the record, the
\* rotation and its gc having succeeded: put returns the io::Error, the
\* keydir and the stats are not updated, the stream position stays behind the
\* bytes written and the handle stays usable.
PutTorn(p, k, v, n) ==
    /\ pc[p] = "live"
    /\ torn.count < MaxTornWrites
    /\ clock < MaxTornClock
    /\ rotate_log(StateOf(p), Len(k), Len(v)).ok
    /\ PutDone(p, k, v, put_bytes(StateOf(p), k, v, clock, n))
    /\ torn' = TornBy(put_bytes(StateOf(p), k, v, clock, n), k, n)

\* Storage::put where a remove_file of the gc in rotate_log fails: put
\* returns the io::Error before it writes anything.
PutGcFault(p, k, v) ==
    /\ pc[p] = "live"
    /\ \E budget \in 0..(Len(stale_log_entries(storage_stats[p])) - 1) :
          PutDone(p, k, v, put_env(StateOf(p), k, v, clock, budget))
    /\ UNCHANGED torn

\* Storage::remove of a present key where a write_all of the tombstone fails
\* after n bytes: remove returns the io::Error and the key stays.
RemoveTorn(p, k, n) ==
    /\ pc[p] = "live"
    /\ torn.count < MaxTornWrites
    /\ clock < MaxTornClock
    /\ k \in DOMAIN keydir[p]
    /\ rotate_log(StateOf(p), Len(k), 0).ok
    /\ RemoveDone(p, k, remove_key(put_bytes(StateOf(p), k, <<>>, clock, n), k))
    /\ torn' = TornBy(put_bytes(StateOf(p), k, <<>>, clock, n), k, n)

\* Storage::remove of a present key where a remove_file of the gc fails.
RemoveGcFault(p, k) ==
    /\ pc[p] = "live"
    /\ k \in DOMAIN keydir[p]
    /\ \E budget \in 0..(Len(stale_log_entries(storage_stats[p])) - 1) :
          RemoveDone(p, k, remove_key(put_env(StateOf(p), k, <<>>, clock, budget), k))
    /\ UNCHANGED torn

\* The process holding handle p dies: no destructor runs, LOCK stays.
Crash(p) ==
    /\ pc[p] \in {"locked", "live"}
    /\ Forget(p)
    /\ pc' = [pc EXCEPT ![p] = "closed"]
    /\ written' = [written EXCEPT ![p] = Untouched]
    /\ removes' = [removes EXCEPT ![p] = FALSE]
    /\ returned' = Nothing
    /\ stale_lock' = TRUE
    /\ UNCHANGED <<disk, lockfile, clock, ref, torn>>

\* The operator removes the LOCK a crashed process left behind.
RemoveStaleLock ==
    /\ stale_lock
    /\ lockfile' = FALSE
    /\ stale_lock' = FALSE
    /\ UNCHANGED <<disk, pc, returned, keydir, log_files, storage_stats, clock,
                   ref, written, removes, torn>>

\* _open, second half, where read_dir fails in build_keydir.
OpenReadDirFault(p) ==
    /\ pc[p] = "locked"
    /\ Dropped(p, [h |-> p, res |-> "IoError"])
    /\ UNCHANGED <<disk, clock, ref, written, removes, stale_lock, torn>>

\* _open, second half, where a remove_file of the initial gc fails.
OpenGcFault(p) ==
    /\ pc[p] = "locked"
    /\ build_keydir(disk).ok
    /\ \E budget \in 0..(Len(stale_log_entries(build_keydir(disk).stats)) - 1) :
          Recover(p, budget)
    /\ UNCHANGED <<clock, ref, removes, stale_lock, torn>>

FaultNext ==
    \/ Next
    \/ \E p \in Handles, k \in TornKeys, v \in TornValues :
          \E n \in TornPoints(k, v) : PutTorn(p, k, v, n)
    \/ \E p \in Handles, k \in Keys, v \in Values : PutGcFault(p, k, v)
    \/ \E p \in Handles, k \in TornKeys :
          \E n \in TornPoints(k, <<>>) : RemoveTorn(p, k, n)
    \/ \E p \in Handles, k \in Keys : RemoveGcFault(p, k)
    \/ \E p \in Handles : Crash(p)
    \/ RemoveStaleLock
    \/ \E p \in Handles : OpenReadDirFault(p)
    \/ \E p \in Handles : OpenGcFault(p)

SpecFaults == Init /\ [][FaultNext]_vars

\* ------------------------------------------------------------------ claims

Holders == {p \in Handles : pc[p] \in {"locked", "live"}}

\* The number of keydir entries of kd whose log is sid.
EntriesIn(kd, sid) == Cardinality({k \in DOMAIN kd : kd[k].file_id = sid})

\* The count the stats hold for sid (none: 0).
StatsCount(stats, sid) == IF sid \in DOMAIN stats THEN stats[sid] ELSE 0

RECURSIVE SumCounts(_, _)
SumCounts(stats, sids) ==
    IF sids = {} THEN 0
    ELSE LET sid == CHOOSE x \in sids : TRUE
         IN stats[sid] + SumCounts(stats, sids \ {sid})

\* bytes ends with suffix.
EndsWith(bytes, suffix) ==
    /\ Len(bytes) >= Len(suffix)
    /\ SubSeq(bytes, Len(bytes) - Len(suffix) + 1, Len(bytes)) = suffix

\* Some segment ends with the tombstone record of key k.
TombstoneAtTail(k) ==
    \E sid \in DOMAIN disk, ts \in 0..MaxOps :
        EndsWith(disk[sid], HeaderNew(ts, Len(k), 0) \o k)

\* C1 (read-your-write): on a live handle, a key whose latest operation on
\* this handle was put(k, v) is read back by get(k) as exactly v, whatever
\* rotations and garbage collections happened since.
ReadYourWrite ==
    \A p \in Handles, k \in Keys :
        (pc[p] = "live" /\ written[p][k] = "put") => get(StateOf(p), k) = ref[k]

\* C1 witness: a value is read back from a rotated segment after segment 0
\* was reclaimed.
ReadYourWriteWitness ==
    \E p \in Handles, k \in Keys :
        /\ pc[p] = "live"
        /\ written[p][k] = "put"
        /\ ref[k] = Some(<<7, 8>>)
        /\ keydir[p][k].file_id >= 1
        /\ 0 \notin DOMAIN disk
        /\ get(StateOf(p), k) = Some(<<7, 8>>)

\* C2 (persistence): the key -> value mapping a live handle serves equals
\* the reference map of all puts and removes applied so far, in particular
\* right after every reopen.
Persistence ==
    \A p \in Handles, k \in Keys :
        pc[p] = "live" => get(StateOf(p), k) = ref[k]

\* C3 (no resurrection): a key whose final operation was a remove performed
\* by an earlier handle is absent on every handle opened afterwards.
NoResurrection ==
    \A p \in Handles, k \in Keys :
        (pc[p] = "live" /\ written[p][k] = "untouched" /\ ref[k] = None)
            => get(StateOf(p), k) = None

\* C4 (segment count invariant): on a live handle the stats count of every
\* segment equals the number of keydir entries pointing into it, and the
\* counts sum up to the number of keys.
SegmentCountInvariant ==
    \A p \in Handles :
        pc[p] = "live" =>
            /\ \A sid \in DOMAIN storage_stats[p] \cup DOMAIN log_files[p] :
                   StatsCount(storage_stats[p], sid) = EntriesIn(keydir[p], sid)
            /\ SumCounts(storage_stats[p], DOMAIN storage_stats[p])
                   = Cardinality(DOMAIN keydir[p])

\* No segment but the active one is without a keydir entry in storage state S.
NoStaleSegment(S) ==
    \A sid \in DOMAIN S.log_files \cup DOMAIN S.disk :
        sid # ActiveFileId(S) => EntriesIn(S.keydir, sid) > 0

\* C5 (stale reclamation): the storage state right after the garbage
\* collection of an open, and right after the one in the rotation check of
\* any put a live handle can make, has no segment other than the active one
\* with zero keydir entries.
StaleReclamation ==
    /\ \A p \in Handles :
           (pc[p] = "locked" /\ build_keydir(disk).ok)
               => NoStaleSegment(gc(build_keydir(disk)))
    /\ \A p \in Handles, k \in Keys, v \in Values :
           pc[p] = "live" => NoStaleSegment(rotate_log(StateOf(p), Len(k), Len(v)))

\* C6 (single writer): at most one handle holds the directory at a time, and
\* an open attempted while another handle holds it acquires nothing and
\* returns AlreadyLocked.
SingleWriter ==
    /\ [](Cardinality(Holders) <= 1)
    /\ [][\A p \in Handles :
            (pc[p] = "closed" /\ Holders # {})
                => /\ pc'[p] = "closed"
                   /\ (returned' # returned /\ returned'.h = p)
                          => returned'.res = "AlreadyLocked"]_vars

\* C6 witness: an open was refused while the other handle is live.
SingleWriterWitness ==
    \E p \in Handles, q \in Handles :
        /\ p # q
        /\ pc[q] = "live"
        /\ pc[p] = "closed"
        /\ returned = [h |-> p, res |-> "AlreadyLocked"]

\* C7 (lock release on every exit path): when no handle holds the directory
\* and no process crashed while holding it, LOCK does not exist and the
\* next open acquires the lock instead of being refused with AlreadyLocked.
LockReleased ==
    (Holders = {} /\ ~stale_lock) => (~lockfile /\ LockfileLock(lockfile).ok)

\* C7 witness: an open failed during recovery or its garbage collection
\* after it had acquired the lock, and LOCK is gone.
LockReleasedWitness ==
    /\ returned.res = "IoError"
    /\ pc[returned.h] = "closed"
    /\ Holders = {}
    /\ ~stale_lock
    /\ ~lockfile

\* C8 (tombstone hides): on a live handle, a key whose latest operation on
\* this handle was remove(k) is absent for get(k).
TombstoneHides ==
    \A p \in Handles, k \in Keys :
        (pc[p] = "live" /\ written[p][k] = "removed") => get(StateOf(p), k) = None

\* C8 witness: a present key was removed (its tombstone is on disk) and
\* rotation happened since the handle was opened.
TombstoneHidesWitness ==
    \E p \in Handles, k \in Keys :
        /\ pc[p] = "live"
        /\ written[p][k] = "removed"
        /\ TombstoneAtTail(k)
        /\ Cardinality(DOMAIN log_files[p]) >= 2
        /\ get(StateOf(p), k) = None

\* C9 (tombstone representation): no keydir entry of a live handle has
\* value_size 0.
TombstoneRepresentation ==
    \A p \in Handles :
        pc[p] = "live" => \A k \in DOMAIN keydir[p] : keydir[p][k].value_size # 0

\* A record whose header was written and whose key or value is incomplete is
\* the last thing in the active segment of the directory.
TornAtActiveTail ==
    /\ torn.part \in {"key", "value"}
    /\ torn.sid \in DOMAIN disk
    /\ torn.sid = MaxOf(DOMAIN disk)
    /\ Len(disk[torn.sid]) = torn.len

\* C10 (torn tail aborts recovery): an open whose recovery runs while a
\* truncated record is the last thing in the active segment fails with an
\* I/O error and returns no handle.
TornTailAbortsRecovery ==
    [][\A p \in Handles :
         (pc[p] = "locked" /\ TornAtActiveTail /\ pc'[p] # "locked" /\ ~stale_lock')
             => (pc'[p] = "closed" /\ returned' = [h |-> p, res |-> "IoError"])]_vars

\* The greatest-id segment of storage state S survives the garbage collection
\* of S, in the segment set and on disk.
ActiveSurvivesGc(S) ==
    /\ ActiveFileId(S) \in DOMAIN gc(S).log_files
    /\ ActiveFileId(S) \in DOMAIN gc(S).disk
    /\ ActiveFileId(gc(S)) = ActiveFileId(S)

\* C11 (active segment is never collected): the garbage collection of an
\* open, and the one of every put a live handle can make, keeps the
\* greatest-id segment of the segment set whatever its count and whether or
\* not the stats have an entry for it; the segment set of a live handle is
\* never empty and its greatest id is a file on disk.
ActiveNeverCollected ==
    /\ \A p \in Handles :
           (pc[p] = "locked" /\ build_keydir(disk).ok)
               => ActiveSurvivesGc(build_keydir(disk))
    /\ \A p \in Handles :
           pc[p] = "live" =>
               /\ DOMAIN log_files[p] # {}
               /\ ActiveFileId(StateOf(p)) \in DOMAIN disk
               /\ \A k \in Keys, v \in Values :
                      ActiveSurvivesGc(rotate_check(StateOf(p), Len(k), Len(v)))

\* C11 witness: a garbage collection deleted segment 0 while the active
\* segment has no keydir entry and its id is the greatest one in the stats.
ActiveNeverCollectedWitness ==
    \E p \in Handles :
        /\ pc[p] = "live"
        /\ 0 \notin DOMAIN disk
        /\ EntriesIn(keydir[p], ActiveFileId(StateOf(p))) = 0
        /\ StatsCount(storage_stats[p], ActiveFileId(StateOf(p))) = 0
        /\ ActiveFileId(StateOf(p)) \in DOMAIN storage_stats[p]

\* Handle p is live and nothing was called on it since its open returned.
JustOpened(p) ==
    /\ pc[p] = "live"
    /\ returned = [h |-> p, res |-> "Ok"]
    /\ written[p] = Untouched
    /\ ~removes[p]

\* C12 (rotation monotonicity): while a handle is live its active segment id
\* stays or grows by exactly one, and it grows only in a put whose rotation
\* test holds; garbage collection leaves the active id alone; when a handle
\* is closed the active id is the greatest id in the directory, and the next
\* open of a directory with segments makes that same id active again.
RotationMonotonicity ==
    [][\A p \in Handles :
         /\ (pc[p] = "live" /\ pc'[p] = "live") =>
                /\ MaxOf(DOMAIN log_files'[p]) \in
                       {ActiveFileId(StateOf(p)), ActiveFileId(StateOf(p)) + 1}
                /\ MaxOf(DOMAIN log_files'[p]) # ActiveFileId(StateOf(p)) =>
                       \E k \in Keys, v \in Values :
                           /\ NeedsRotation(log_files[p][ActiveFileId(StateOf(p))],
                                            Len(k), Len(v))
                           /\ log_files'[p] = put(StateOf(p), k, v, clock).log_files
                           /\ disk' = put(StateOf(p), k, v, clock).disk
         /\ pc[p] = "live" =>
                ActiveFileId(gc(StateOf(p))) = ActiveFileId(StateOf(p))
         /\ (pc[p] = "live" /\ pc'[p] = "closed") =>
                /\ DOMAIN disk' # {}
                /\ MaxOf(DOMAIN disk') = ActiveFileId(StateOf(p))
         /\ (pc[p] = "locked" /\ pc'[p] = "live" /\ DOMAIN disk # {}) =>
                MaxOf(DOMAIN log_files'[p]) = MaxOf(DOMAIN disk)]_vars

\* C12 witness: a directory whose handle rotated twice was reopened, its
\* initial garbage collection deleted segment 0, and segment 2 is active.
RotationMonotonicityWitness ==
    \E p \in Handles :
        /\ JustOpened(p)
        /\ ActiveFileId(StateOf(p)) = 2
        /\ 0 \notin DOMAIN disk

\* The bytes of the record that put(k, v) appends at time now.
RecordBytes(k, v, now) ==
    DiskEntryNew(k, v, now).header \o DiskEntryNew(k, v, now).key
        \o DiskEntryNew(k, v, now).value

\* put(k, v) on storage state S, whose active segment is a at stream position
\* current, gives storage state T: the rotation rule.
RotationRule(S, T, a, current, k, v, now) ==
    /\ T.ok
    /\ Cardinality(DOMAIN T.disk \ DOMAIN S.disk) <= 1
    /\ IF current + 12 + Len(k) + Len(v) > MaxLogFileSize
       THEN /\ a + 1 \notin DOMAIN S.disk
            /\ DOMAIN T.disk \ DOMAIN S.disk = {a + 1}
            /\ ActiveFileId(T) = a + 1
            /\ T.disk[a + 1] = RecordBytes(k, v, now)
            /\ a \in DOMAIN T.disk => T.disk[a] = S.disk[a]
       ELSE /\ DOMAIN T.disk \subseteq DOMAIN S.disk
            /\ ActiveFileId(T) = a
            /\ Len(T.disk[a]) = current + Len(RecordBytes(k, v, now))
            /\ SubSeq(T.disk[a], 1, current) = S.disk[a]
            /\ SubSeq(T.disk[a], current + 1, Len(T.disk[a])) = RecordBytes(k, v, now)

\* C13 (rotation rule): every put a live handle can make appends its record
\* at offset 0 of a new segment active_id + 1 if and only if
\* current + 12 + len(k) + len(v) > max_log_file_size, and otherwise at
\* offset current of the active segment; it creates at most one segment.
RotationRuleHolds ==
    \A p \in Handles, k \in Keys, v \in Values :
        pc[p] = "live" =>
            RotationRule(StateOf(p), put(StateOf(p), k, v, clock),
                         ActiveFileId(StateOf(p)),
                         log_files[p][ActiveFileId(StateOf(p))], k, v, clock)

\* C13 witness: a put that filled segment 0 up to max_log_file_size exactly
\* did not rotate, and the put after it opened segment 1 with its record.
RotationRuleWitness ==
    \E p \in Handles, k \in Keys, v \in Values, ts \in 0..MaxOps :
        /\ pc[p] = "live"
        /\ ActiveFileId(StateOf(p)) = 1
        /\ 0 \in DOMAIN disk
        /\ Len(disk[0]) = MaxLogFileSize
        /\ disk[1] = RecordBytes(k, v, ts)
        /\ log_files[p][1] = Len(disk[1])

\* C14 (remove of an absent key is a successful no-op): on a live handle,
\* remove(k) for a key that is not in the keydir returns success and leaves
\* the bytes of every segment, the segment set with its stream positions,
\* the keydir and the stats as they were.
RemoveAbsentIsNoOp ==
    \A p \in Handles, k \in Keys :
        (pc[p] = "live" /\ KeydirGet(keydir[p], k) = {}) =>
            /\ remove(StateOf(p), k, clock).ok
            /\ remove(StateOf(p), k, clock) = StateOf(p)

\* C14 witness: remove was called for a key that is on no segment of a
\* directory holding one record of another key, and it returned Ok.
RemoveAbsentIsNoOpWitness ==
    \E p \in Handles, k \in Keys, other \in Keys :
        /\ other # k
        /\ pc[p] = "live"
        /\ written[p][k] = "removed"
        /\ returned = [h |-> p, res |-> "Ok"]
        /\ DOMAIN disk = {0}
        /\ \E ts \in 0..MaxOps : disk[0] = RecordBytes(other, <<7, 8>>, ts)
        /\ DOMAIN keydir[p] = {other}
        /\ storage_stats[p] = (0 :> 1)

\* C15 (every segment is registered in stats): on a live handle the ids with
\* a stats entry are the ids of the segment set, and a segment created by
\* the rotation check of a put has a stats entry, with count 0, when the
\* garbage collection of that check starts.
SegmentsRegistered ==
    \A p \in Handles :
        pc[p] = "live" =>
            /\ DOMAIN storage_stats[p] = DOMAIN log_files[p]
            /\ \A k \in Keys, v \in Values :
                   NeedsRotation(log_files[p][ActiveFileId(StateOf(p))], Len(k), Len(v))
                       => /\ ActiveFileId(StateOf(p)) + 1 \in
                                 DOMAIN rotate_check(StateOf(p), Len(k), Len(v)).stats
                          /\ rotate_check(StateOf(p), Len(k), Len(v)).stats[
                                 ActiveFileId(StateOf(p)) + 1] = 0

\* Keydir entry e points at bytes that exist in storage state S.
PointsAtData(S, e) ==
    /\ e.file_id \in DOMAIN S.log_files
    /\ e.file_id \in DOMAIN S.disk
    /\ e.value_pos >= 0
    /\ e.value_pos + e.value_size <= Len(S.disk[e.file_id])

\* C16 (keydir entries point at existing data): on a live handle every
\* keydir entry's segment is in the segment set and on disk, its byte range
\* [value_pos, value_pos + value_size) lies inside the segment's content, and
\* get of the key does not fail.
KeydirPointsAtData ==
    \A p \in Handles :
        pc[p] = "live" =>
            \A k \in DOMAIN keydir[p] :
                /\ PointsAtData(StateOf(p), keydir[p][k])
                /\ get(StateOf(p), k).tag = "Some"

\* C17 (stats are exact right after open): when open has just returned a
\* handle, the stats count of every segment in the segment set equals the
\* number of keydir entries whose segment it is.
StatsExactAfterOpen ==
    \A p \in Handles :
        JustOpened(p) =>
            \A sid \in DOMAIN log_files[p] :
                StatsCount(storage_stats[p], sid) = EntriesIn(keydir[p], sid)

\* C17 witness: a key written in segment 0 and overwritten after a rotation
\* was reopened; segment 0 still holds another key and the segment holding
\* the last write has count 1.
StatsExactAfterOpenWitness ==
    \E p \in Handles, k \in Keys :
        /\ JustOpened(p)
        /\ k \in DOMAIN keydir[p]
        /\ keydir[p][k].file_id = 1
        /\ storage_stats[p] = (0 :> 1 @@ 1 :> 1)
        /\ 0 \in DOMAIN disk
        /\ Len(disk[0]) >= 15
        /\ \E ts \in 0..MaxOps : SubSeq(disk[0], 1, 15) = RecordBytes(k, <<7, 8>>, ts)

\* Segment sid is sealed on handle p and no keydir entry points into it.
Superseded(p, sid) ==
    /\ sid \in DOMAIN log_files[p]
    /\ sid # ActiveFileId(StateOf(p))
    /\ EntriesIn(keydir[p], sid) = 0

\* C18 (superseded segments are reclaimed by the next put): on a live handle
\* that has never called remove, a sealed segment whose keys have all been
\* overwritten from later segments is gone from the segment set and from the
\* disk when the next put, whatever its key and value, returns.
SupersededReclaimedByNextPut ==
    \A p \in Handles :
        (pc[p] = "live" /\ ~removes[p]) =>
            \A sid \in DOMAIN log_files[p] :
                Superseded(p, sid) =>
                    \A k \in Keys, v \in Values :
                        /\ put(StateOf(p), k, v, clock).ok
                        /\ sid \notin DOMAIN put(StateOf(p), k, v, clock).log_files
                        /\ sid \notin DOMAIN put(StateOf(p), k, v, clock).disk

\* C18 witness: a handle that never called remove has put all three keys;
\* one of its puts overwrote from a later segment the only key of segment 0,
\* and its next put deleted segment 0.
SupersededReclaimedWitness ==
    \E p \in Handles :
        /\ pc[p] = "live"
        /\ ~removes[p]
        /\ \A k \in Keys : written[p][k] = "put"
        /\ DOMAIN log_files[p] = {1, 2}
        /\ DOMAIN disk = {1, 2}
        /\ DOMAIN storage_stats[p] = {1, 2}

\* Segment sid has in storage state T the bytes it has in S.
SameBytes(S, T, sid) ==
    /\ sid \in DOMAIN T.disk
    /\ T.disk[sid] = S.disk[sid]

\* From storage state S to T, bytes were only appended, and only to the
\* segment that is active in T; every other segment is untouched or deleted.
AppendedOnly(S, T) ==
    /\ \A sid \in DOMAIN S.disk \cap DOMAIN T.disk :
           /\ Len(T.disk[sid]) >= Len(S.disk[sid])
           /\ SubSeq(T.disk[sid], 1, Len(S.disk[sid])) = S.disk[sid]
           /\ T.disk[sid] # S.disk[sid] => sid = ActiveFileId(T)
    /\ \A sid \in DOMAIN T.disk \ DOMAIN S.disk : sid = ActiveFileId(T)
    /\ Cardinality({sid \in DOMAIN T.disk :
                       sid \notin DOMAIN S.disk \/ ~SameBytes(S, T, sid)}) <= 1

\* C19 (append-only, single write target): every put and every remove a
\* live handle can make changes the bytes of at most one segment, the one
\* that is active when the record is written, and only by appending after
\* its content; the other segments keep their bytes or are deleted whole.
AppendOnly ==
    \A p \in Handles, k \in Keys :
        pc[p] = "live" =>
            /\ \A v \in Values : AppendedOnly(StateOf(p), put(StateOf(p), k, v, clock))
            /\ AppendedOnly(StateOf(p), remove(StateOf(p), k, clock))

\* C19 witness: segment 0 is sealed with its two records, and a put and a
\* remove have appended a record and a tombstone to segment 1.
AppendOnlyWitness ==
    \E p \in Handles, k \in Keys :
        /\ pc[p] = "live"
        /\ written[p][k] = "removed"
        /\ DOMAIN disk = {0, 1}
        /\ Len(disk[0]) = 30
        /\ Len(disk[1]) = 28
        /\ \E ts \in 0..MaxOps : EndsWith(disk[1], HeaderNew(ts, Len(k), 0) \o k)
        /\ log_files[p][1] = 28

\* The KeydirPut event of put(k, v) on storage state S, which has passed the
\* rotation check, decrements a count that is at least 1 (or decrements
\* nothing).
DecrementAbove(S, k) ==
    (/\ OldLogId(S.keydir, k) # NoLog
     /\ OldLogId(S.keydir, k) # ActiveFileId(S)
     /\ OldLogId(S.keydir, k) \in DOMAIN S.stats)
        => S.stats[OldLogId(S.keydir, k)] >= 1

\* C20 (no decrement below zero): every stats count of a live handle is
\* >= 0, and in no reachable state does a put or the tombstone put of a
\* remove run dec_alive_log_count on a segment whose count is 0: no put and
\* no remove panics in a debug build or wraps a count in a release build.
NoDecrementBelowZero ==
    \A p \in Handles :
        pc[p] = "live" =>
            /\ \A sid \in DOMAIN storage_stats[p] : storage_stats[p][sid] >= 0
            /\ \A k \in Keys, v \in Values :
                   /\ DecrementAbove(rotate_log(StateOf(p), Len(k), Len(v)), k)
                   /\ put(StateOf(p), k, v, clock).panic = "none"
            /\ \A k \in Keys : remove(StateOf(p), k, clock).panic = "none"

\* C20 witness: a decrement has brought the count of segment 0 down to
\* exactly 0 while segment 0 is still in the segment set.
NoDecrementBelowZeroWitness ==
    \E p \in Handles :
        /\ pc[p] = "live"
        /\ 0 \in DOMAIN storage_stats[p]
        /\ storage_stats[p][0] = 0
        /\ returned = [h |-> p, res |-> "Ok"]
        /\ \E k \in Keys : written[p][k] = "put" /\ keydir[p][k].file_id >= 1
        /\ EntriesIn(keydir[p], 0) = 0
        /\ Len(disk[0]) > 0

\* Every record the handles can write fits in an empty segment.
RecordsFit ==
    \A k \in Keys, v \in Values : 12 + Len(k) + Len(v) <= MaxLogFileSize

\* No segment of directory d is longer than max_log_file_size.
WithinCeiling(d) == \A sid \in DOMAIN d : Len(d[sid]) <= MaxLogFileSize

\* C21 (segment size ceiling): when every record fits in max_log_file_size,
\* every segment of the directory has at most max_log_file_size bytes, in
\* every reachable state and after every put or remove a live handle can make.
SegmentSizeCeiling ==
    RecordsFit =>
        /\ WithinCeiling(disk)
        /\ \A p \in Handles, k \in Keys :
               pc[p] = "live" =>
                   /\ \A v \in Values :
                          WithinCeiling(put(StateOf(p), k, v, clock).disk)
                   /\ WithinCeiling(remove(StateOf(p), k, clock).disk)

\* C21 witness: a sealed segment and the active segment are both filled up
\* to max_log_file_size exactly.
SegmentSizeCeilingWitness ==
    \E p \in Handles :
        /\ RecordsFit
        /\ pc[p] = "live"
        /\ DOMAIN log_files[p] = {0, 1}
        /\ Len(disk[0]) = MaxLogFileSize
        /\ Len(disk[1]) = MaxLogFileSize
        /\ log_files[p][1] = MaxLogFileSize

\* C22 (a refused open does not break the lock): a step in which an open
\* returns AlreadyLocked leaves LOCK in place and changes no segment file,
\* no handle's state and no holder; and as long as a handle holds the
\* directory, LOCK exists and Lockfile::lock fails for every other open.
RefusedOpenKeepsLock ==
    /\ [](Holders # {} => (lockfile /\ ~LockfileLock(lockfile).ok))
    /\ [][\A p \in Handles :
            (returned' = [h |-> p, res |-> "AlreadyLocked"] /\ returned' # returned)
                => /\ lockfile /\ lockfile'
                   /\ disk' = disk
                   /\ pc' = pc
                   /\ Holders # {}
                   /\ p \notin Holders
                   /\ keydir' = keydir
                   /\ log_files' = log_files
                   /\ storage_stats' = storage_stats]_vars

\* C22 witness: an open was refused on a directory with data while the
\* other handle stays live with its lock and its segment.
RefusedOpenKeepsLockWitness ==
    \E p \in Handles, q \in Handles :
        /\ returned = [h |-> p, res |-> "AlreadyLocked"]
        /\ pc[p] = "closed"
        /\ pc[q] = "live"
        /\ lockfile
        /\ 0 \in DOMAIN disk
        /\ Len(disk[0]) > 0
        /\ get(StateOf(q), <<1>>) = Some(<<7, 8>>)

====
